---- MODULE Spec2Model ----
(***************************************************************************)
(* Text layout utilities of pdf-lib-utils: word splitting, line building, *)
(* overflow classification and draw emission of drawTextArea and          *)
(* drawTextLine.                                                           *)
(*                                                                         *)
(* Every operation is a synchronous call: an action is one whole call.    *)
(* A call starts from the idle state, reads its arguments, and leaves     *)
(* behind the lines it built, the onOverflow invocations it made and the  *)
(* commands it emitted to the page.                                        *)
(*                                                                         *)
(* Numbers.  Text is a sequence of characters.  Widths are integers       *)
(* (advance per character times font size).  Line heights are kept in     *)
(* tenths of a unit (fontSize * lineHeight, lineHeight in tenths), x in   *)
(* a numerator/denominator pair and y in twentieths, so that the          *)
(* divisions of the code are exact.  Floating point rounding is not       *)
(* modelled.                                                               *)
(***************************************************************************)
EXTENDS Integers, Sequences, FiniteSets, TLC

VARIABLES
    pc,       \* "idle" before the call, "done" after it returned
    op,       \* the operation that was called
    args,     \* the arguments of the call
    lines,    \* the lines the call built (TextPart[][])
    reports,  \* the payloads onOverflow was invoked with, in order
    rendered, \* the lines the call selected for drawing (renderLines)
    page,     \* the commands the call emitted to the page, in order
    ret       \* the value a pure helper returned

vars == <<pc, op, args, lines, rendered, reports, page, ret>>

-----------------------------------------------------------------------------
(* Bounds of the model *)

MaxParts == 2
MaxLen == 4

-----------------------------------------------------------------------------
(* Generic helpers *)

SeqsUpTo(S, n) == UNION {[1..k -> S] : k \in 0..n}

RECURSIVE Flatten(_)
Flatten(ss) == IF ss = <<>> THEN <<>> ELSE Head(ss) \o Flatten(Tail(ss))

RECURSIVE SumSeq(_)
SumSeq(s) == IF s = <<>> THEN 0 ELSE Head(s) + SumSeq(Tail(s))

MaxOf(S) == CHOOSE m \in S : \A x \in S : x <= m

Range(s) == {s[i] : i \in DOMAIN s}

-----------------------------------------------------------------------------
(* The page and the font service *)

PageHeight == 800

defaultFontSize == 12

WhiteSpace == {" "}

IsSpace(c) == c \in WhiteSpace

\* font.widthOfTextAtSize: an additive advance width, one advance per
\* character, proportional to the size.
\* "F0" is a font whose glyphs have no advance (zero-width characters).
Advance(font) == IF font = "F2" THEN 2 ELSE IF font = "F0" THEN 0 ELSE 1

widthOfTextAtSize(font, text, size) == Len(text) * Advance(font) * size

\* `fontSize || 12`: an absent font size is written 0.
FontSizeOf(part) == IF part.fontSize = 0 THEN defaultFontSize ELSE part.fontSize

partWidth(part) == widthOfTextAtSize(part.font, part.text, FontSizeOf(part))

-----------------------------------------------------------------------------
(* splitPartToWords: text.match(/\S+|\s+/g) || [] *)

\* Length of the maximal run of characters of the class of t[1].
RunLen(t) ==
    CHOOSE n \in 1..Len(t) :
        /\ \A i \in 1..n : IsSpace(t[i]) = IsSpace(t[1])
        /\ (n = Len(t) \/ IsSpace(t[n + 1]) # IsSpace(t[1]))

RECURSIVE MatchTokens(_)
MatchTokens(t) ==
    IF t = <<>> THEN <<>>
    ELSE LET n == RunLen(t)
         IN  <<SubSeq(t, 1, n)>> \o MatchTokens(SubSeq(t, n + 1, Len(t)))

\* A plausible slip: /\S+/g, which drops the white space.
RECURSIVE MatchTokens_NoSpace(_)
MatchTokens_NoSpace(t) ==
    IF t = <<>> THEN <<>>
    ELSE LET n == RunLen(t)
             rest == MatchTokens_NoSpace(SubSeq(t, n + 1, Len(t)))
         IN  IF IsSpace(t[1]) THEN rest ELSE <<SubSeq(t, 1, n)>> \o rest

splitPartToWords_NoSpace(part) ==
    LET words == MatchTokens_NoSpace(part.text)
    IN  [i \in 1..Len(words) |-> [part EXCEPT !.text = words[i]]]

splitPartToWords(part) ==
    LET words == MatchTokens(part.text)
    IN  [i \in 1..Len(words) |-> [part EXCEPT !.text = words[i]]]

TextOf(frags) == Flatten([i \in 1..Len(frags) |-> frags[i].text])

-----------------------------------------------------------------------------
(* groupPartsByStyle: merge consecutive parts of identical style *)

SameStyle_NoOpacity(a, b) ==
    /\ a.font = b.font
    /\ a.fontSize = b.fontSize
    /\ a.color = b.color

SameStyle(a, b) ==
    /\ a.font = b.font
    /\ a.fontSize = b.fontSize
    /\ a.color = b.color
    /\ a.opacity = b.opacity

\* acc.current is the run being built, as a sequence of length 0 (null) or 1.
GroupStep(acc, part) ==
    IF acc.current # <<>> /\ SameStyle(part, acc.current[1])
    THEN [acc EXCEPT !.current = <<[acc.current[1] EXCEPT !.text = @ \o part.text]>>]
    ELSE [grouped |-> acc.grouped \o acc.current, current |-> <<part>>]

RECURSIVE GroupFold(_, _)
GroupFold(acc, parts) ==
    IF parts = <<>> THEN acc ELSE GroupFold(GroupStep(acc, Head(parts)), Tail(parts))

groupPartsByStyle(parts) ==
    LET acc == GroupFold([grouped |-> <<>>, current |-> <<>>], parts)
    IN  acc.grouped \o acc.current

\* What the caller's array would hold if `current` were the part itself: the
\* first part of every run holds the text of the run.
GroupWrites_Alias(parts) ==
    LET grouped == groupPartsByStyle(parts)
    IN  [i \in DOMAIN parts |->
            IF \E g \in DOMAIN grouped : grouped[g].src = parts[i].src
            THEN LET g == CHOOSE g \in DOMAIN grouped : grouped[g].src = parts[i].src
                 IN  [parts[i] EXCEPT !.text = grouped[g].text]
            ELSE parts[i]]

\* The caller's array after groupPartsByStyle: `current.text += part.text`
\* writes to `current`, which is `{ ...part }`, a copy, so no part of the
\* array is written.
GroupWrites(parts) == parts

-----------------------------------------------------------------------------
(* drawTextArea (draw-text-area.ts), step 1: the word stream into lines *)

EmptyAcc == [lines |-> <<>>, cur |-> <<>>, w |-> 0]

Flush_Always(st) ==
    [lines |-> Append(st.lines, st.cur), cur |-> <<>>, w |-> 0]

Flush(st) ==
    [lines |-> IF Len(st.cur) > 0 THEN Append(st.lines, st.cur) ELSE st.lines,
     cur |-> <<>>, w |-> 0]

\* A plausible slip: the line is reset on wrap without being pushed.
AddWord_DropOnWrap(st, word, autoWrap, boxWidth) ==
    LET wordWidth == partWidth(word)
        st1 == IF autoWrap /\ st.w + wordWidth > boxWidth /\ Len(st.cur) > 0
               THEN [lines |-> st.lines, cur |-> <<>>, w |-> 0]
               ELSE st
    IN  [st1 EXCEPT !.cur = Append(@, word), !.w = @ + wordWidth]

\* A plausible slip: the width test leaves out the word being added.
AddWord_LateWrap(st, word, autoWrap, boxWidth) ==
    LET wordWidth == partWidth(word)
        st1 == IF autoWrap /\ st.w > boxWidth /\ Len(st.cur) > 0
               THEN [lines |-> Append(st.lines, st.cur), cur |-> <<>>, w |-> 0]
               ELSE st
    IN  [st1 EXCEPT !.cur = Append(@, word), !.w = @ + wordWidth]

AddWord_NeverWrap(st, word, autoWrap, boxWidth) ==
    [st EXCEPT !.cur = Append(@, word), !.w = @ + partWidth(word)]

AddWord(st, word, autoWrap, boxWidth) ==
    LET wordWidth == partWidth(word)
        st1 == IF autoWrap /\ st.w + wordWidth > boxWidth /\ Len(st.cur) > 0
               THEN [lines |-> Append(st.lines, st.cur), cur |-> <<>>, w |-> 0]
               ELSE st
    IN  [st1 EXCEPT !.cur = Append(@, word), !.w = @ + wordWidth]

RECURSIVE AddWords(_, _, _, _)
AddWords(st, words, autoWrap, boxWidth) ==
    IF words = <<>> THEN st
    ELSE AddWords(AddWord(st, Head(words), autoWrap, boxWidth),
                  Tail(words), autoWrap, boxWidth)

\* A plausible slip: newLine is not looked at.
AddPart_NoBreak(st, part, autoWrap, boxWidth) ==
    AddWords(st, splitPartToWords(part), autoWrap, boxWidth)

AddPart(st, part, autoWrap, boxWidth) ==
    LET st1 == IF part.newLine THEN Flush(st) ELSE st
    IN  AddWords(st1, splitPartToWords(part), autoWrap, boxWidth)

RECURSIVE AddParts(_, _, _, _)
AddParts(st, parts, autoWrap, boxWidth) ==
    IF parts = <<>> THEN st
    ELSE AddParts(AddPart(st, Head(parts), autoWrap, boxWidth),
                  Tail(parts), autoWrap, boxWidth)

BuildLines(parts, boxWidth, autoWrap) ==
    Flush(AddParts(EmptyAcc, parts, autoWrap, boxWidth)).lines

-----------------------------------------------------------------------------
(* drawTextArea, step 3: line heights and the lines that fit *)

\* Math.max() of no argument.
NegInfinity == -1000000

\* In tenths: max over the fragments of (fontSize || 12) * lineHeight.
LineHeightOf(line, lineHeight) ==
    IF line = <<>> THEN NegInfinity
    ELSE MaxOf({FontSizeOf(line[j]) * lineHeight : j \in DOMAIN line})

LineHeights(ls, lineHeight) ==
    [i \in 1..Len(ls) |-> LineHeightOf(ls[i], lineHeight)]

\* lastLineIdx: the 0-based index of the first line at which the cumulative
\* height exceeds the box height, -1 when there is none.
\* The loop of lines 150-155, from index idx (0-based) on; boxHeight in units,
\* the heights and totalTextHeight in tenths.
RECURSIVE FitLoop(_, _, _, _, _)
FitLoop(heights, boxHeight, idx, totalTextHeight, lastLineIdx) ==
    IF idx >= Len(heights) THEN lastLineIdx
    ELSE LET total == totalTextHeight + heights[idx + 1]
         IN  FitLoop(heights, boxHeight, idx + 1, total,
                     IF total > boxHeight * 10 /\ lastLineIdx = -1
                     THEN idx ELSE lastLineIdx)

LastLineIdx(heights, boxHeight) == FitLoop(heights, boxHeight, 0, 0, -1)

\* Plausible slips in the selection of the lines to draw.
RenderLines_OffByOne(ls, lastLineIdx, clipOverflow) ==
    IF clipOverflow /\ lastLineIdx # -1 THEN SubSeq(ls, 1, lastLineIdx + 1) ELSE ls

RenderLines_AlwaysClip(ls, lastLineIdx, clipOverflow) ==
    IF lastLineIdx # -1 THEN SubSeq(ls, 1, lastLineIdx) ELSE ls

RenderLines(ls, lastLineIdx, clipOverflow) ==
    IF clipOverflow /\ lastLineIdx # -1 THEN SubSeq(ls, 1, lastLineIdx) ELSE ls

OverflowedLines(ls, lastLineIdx, clipOverflow) ==
    IF clipOverflow /\ lastLineIdx # -1
    THEN SubSeq(ls, lastLineIdx + 1, Len(ls)) ELSE <<>>

OverflowedLineIndices(ls, lastLineIdx, clipOverflow) ==
    IF clipOverflow /\ lastLineIdx # -1
    THEN [i \in 1..(Len(ls) - lastLineIdx) |-> (i - 1) + lastLineIdx] ELSE <<>>

LineWidth(line) == SumSeq([j \in 1..Len(line) |-> partWidth(line[j])])

OverflowX(renderLines, boxWidth) ==
    \E i \in DOMAIN renderLines : LineWidth(renderLines[i]) > boxWidth

Message_XFirst(overflowX, overflowY) ==
    IF overflowX THEN "Text overflows X (width)"
    ELSE IF overflowY THEN "Text overflows Y (height)"
    ELSE "Text fits within the box"

Message(overflowX, overflowY) ==
    IF overflowX /\ overflowY THEN "Text overflows both X (width) and Y (height)"
    ELSE IF overflowX THEN "Text overflows X (width)"
    ELSE IF overflowY THEN "Text overflows Y (height)"
    ELSE "Text fits within the box"

\* A plausible slip: hiding on vertical overflow only.
Hidden_OnlyY(p, overflowX, overflowY) == p.hideOnOverflow /\ overflowY

\* `hideOnOverflow && overflowed`
Hidden(p, overflowX, overflowY) == p.hideOnOverflow /\ (overflowX \/ overflowY)

-----------------------------------------------------------------------------
(* Commands emitted to the page *)

PushCmd == [cmd |-> "pushGraphicsState"]
PopCmd == [cmd |-> "popGraphicsState"]

DebugRect(p) ==
    IF p.debug
    THEN <<[cmd |-> "drawRectangle", x |-> p.x,
            y |-> (PageHeight - p.y) - p.height,
            width |-> p.width, height |-> p.height]>>
    ELSE <<>>

Isolated(p, cmds) ==
    IF p.isolate THEN <<PushCmd>> \o cmds \o <<PopCmd>> ELSE cmds

\* x is xn / xd and y is yn / yd.
DrawText(part, xn, xd, yn, yd, color, opacity) ==
    [cmd |-> "drawText", text |-> part.text, xn |-> xn, xd |-> xd,
     yn |-> yn, yd |-> yd, font |-> part.font, size |-> FontSizeOf(part),
     color |-> IF part.color = "none" THEN color ELSE part.color,
     opacity |-> IF part.opacity = 0 THEN opacity ELSE part.opacity]

-----------------------------------------------------------------------------
(* drawTextArea, steps 4 to 6: vertical alignment and draw emission *)

\* startY in twentieths.
StartY(p, renderTextHeight) ==
    LET boxTop == PageHeight - p.y
    IN  IF p.verticalAlign = "middle"
        THEN boxTop * 20 - (p.height * 10 - renderTextHeight)
        ELSE IF p.verticalAlign = "bottom"
        THEN boxTop * 20 - 2 * (p.height * 10 - renderTextHeight)
        ELSE boxTop * 20

\* xCursor at the start of a line, in halves.
StartX(p, lineWidth) ==
    IF p.align = "center" THEN 2 * p.x + (p.width - lineWidth)
    ELSE IF p.align = "right" THEN 2 * p.x + 2 * (p.width - lineWidth)
    ELSE 2 * p.x

BaselineOffset_OwnSize(maxFontSize, partFontSize) == partFontSize

\* `y: yCursor - (maxFontSize - partFontSize) - partFontSize`: what is
\* subtracted from the cursor.
BaselineOffset(maxFontSize, partFontSize) ==
    (maxFontSize - partFontSize) + partFontSize

DrawAreaLine(p, line, yCursor) ==
    LET groupedLine == groupPartsByStyle(line)
        lineWidth == LineWidth(groupedLine)
        maxFontSize == MaxOf({FontSizeOf(groupedLine[j]) : j \in DOMAIN groupedLine})
        x0 == StartX(p, lineWidth)
    IN  [j \in 1..Len(groupedLine) |->
            DrawText(groupedLine[j],
                     x0 + 2 * LineWidth(SubSeq(groupedLine, 1, j - 1)), 2,
                     yCursor - 20 * BaselineOffset(maxFontSize,
                                                   FontSizeOf(groupedLine[j])), 20,
                     p.color, p.opacity)]

RenderTextHeight_AllLines(p, renderLines) ==
    SumSeq(LineHeights(BuildLines(p.parts, p.width, p.autoWrap), p.lineHeight))

\* renderTextHeight, in tenths: the sum of the heights of the lines to draw.
RenderTextHeight(p, renderLines) ==
    SumSeq(LineHeights(renderLines, p.lineHeight))

DrawAreaLines(p, renderLines) ==
    LET heights == LineHeights(renderLines, p.lineHeight)
        startY == StartY(p, RenderTextHeight(p, renderLines))
    IN  Flatten([i \in 1..Len(renderLines) |->
            DrawAreaLine(p, renderLines[i],
                         startY - 2 * SumSeq(SubSeq(heights, 1, i - 1)))])

Effects_DrawFirst(calls, cmds) ==
    cmds \o [k \in 1..Len(calls) |-> [cmd |-> "onOverflow"]]

\* The effects of a call in the order of its statements: the onOverflow call
\* comes before the first command sent to the page.
Effects(calls, cmds) ==
    [k \in 1..Len(calls) |-> [cmd |-> "onOverflow"]] \o cmds

\* The whole call: what it built, reported and emitted.
drawTextArea(p) ==
    LET ls == BuildLines(p.parts, p.width, p.autoWrap)
        lastLineIdx == LastLineIdx(LineHeights(ls, p.lineHeight), p.height)
        fitsAll == lastLineIdx = -1
        renderLines == RenderLines(ls, lastLineIdx, p.clipOverflow)
        overflowY == ~fitsAll
        overflowX == OverflowX(renderLines, p.width)
        overflowed == overflowX \/ overflowY
        cmds == IF Hidden(p, overflowX, overflowY)
                THEN Isolated(p, DebugRect(p))
                ELSE Isolated(p, DrawAreaLines(p, renderLines) \o DebugRect(p))
        info == [overflowedLines |-> OverflowedLines(ls, lastLineIdx, p.clipOverflow),
                 overflowedLineIndices |->
                     OverflowedLineIndices(ls, lastLineIdx, p.clipOverflow),
                 totalLines |-> Len(ls),
                 renderedLines |-> Len(renderLines),
                 overflowed |-> overflowed,
                 overflowX |-> overflowX,
                 overflowY |-> overflowY,
                 message |-> Message(overflowX, overflowY)]
        called == IF p.onOverflow /\ overflowed THEN <<info>> ELSE <<>>
    IN  [lines |-> ls,
         renderLines |-> renderLines,
         ret |-> Effects(called, cmds),
         reports |-> called,
         page |-> cmds]

-----------------------------------------------------------------------------
(* text-utils.ts: splitPartToFit and the line builder of its drawTextArea *)

\* text.split(/(\s+)/): the tokens, with an empty string at an end where the
\* text starts or ends with white space (and for the empty text).
SplitWS(t) ==
    (IF t = <<>> \/ IsSpace(t[1]) THEN << <<>> >> ELSE <<>>)
    \o MatchTokens(t)
    \o (IF t # <<>> /\ IsSpace(t[Len(t)]) THEN << <<>> >> ELSE <<>>)

FitStep_Eager(acc, part, word, maxWidth) ==
    LET test == acc.current \o word
    IN  IF partWidth([part EXCEPT !.text = test]) >= maxWidth /\ acc.current # <<>>
        THEN [result |-> Append(acc.result, [part EXCEPT !.text = acc.current]),
              current |-> word]
        ELSE [acc EXCEPT !.current = @ \o word]

FitStep(acc, part, word, maxWidth) ==
    LET test == acc.current \o word
    IN  IF partWidth([part EXCEPT !.text = test]) > maxWidth /\ acc.current # <<>>
        THEN [result |-> Append(acc.result, [part EXCEPT !.text = acc.current]),
              current |-> word]
        ELSE [acc EXCEPT !.current = @ \o word]

RECURSIVE FitFold(_, _, _, _)
FitFold(acc, part, words, maxWidth) ==
    IF words = <<>> THEN acc
    ELSE FitFold(FitStep(acc, part, Head(words), maxWidth), part, Tail(words), maxWidth)

splitPartToFit(part, maxWidth) ==
    LET acc == FitFold([result |-> <<>>, current |-> <<>>], part,
                       SplitWS(part.text), maxWidth)
    IN  IF acc.current # <<>>
        THEN Append(acc.result, [part EXCEPT !.text = acc.current])
        ELSE acc.result

\* Lines 118-124 and 129-135: flush when the fragment does not fit, then add it.
AddFragTU(st, frag, boxWidth) ==
    LET st1 == IF st.w + partWidth(frag) > boxWidth /\ Len(st.cur) > 0
               THEN [lines |-> Append(st.lines, st.cur), cur |-> <<>>, w |-> 0]
               ELSE st
    IN  [st1 EXCEPT !.cur = Append(@, frag), !.w = @ + partWidth(frag)]

RECURSIVE AddFragsTU(_, _, _)
AddFragsTU(st, frags, boxWidth) ==
    IF frags = <<>> THEN st
    ELSE AddFragsTU(AddFragTU(st, Head(frags), boxWidth), Tail(frags), boxWidth)

\* Lines 82-112: a part with newLine.
AddNewLinePartTU(st, part0, boxWidth, wrap) ==
    LET st1 == Flush(st)
        part == [part0 EXCEPT !.newLine = FALSE]
    IN  IF Len(part.text) > 0
        THEN IF wrap /\ partWidth(part) > boxWidth
             THEN LET split == splitPartToFit(part, boxWidth)
                  IN  [lines |-> st1.lines \o [k \in 1..Len(split) |-> <<split[k]>>],
                       cur |-> <<>>, w |-> 0]
             ELSE [st1 EXCEPT !.cur = Append(@, part), !.w = partWidth(part)]
        ELSE st1

AddPartTU(st, part, boxWidth, wrap) ==
    IF part.newLine THEN AddNewLinePartTU(st, part, boxWidth, wrap)
    ELSE IF wrap /\ partWidth(part) > boxWidth
    THEN AddFragsTU(st, splitPartToFit(part, boxWidth), boxWidth)
    ELSE AddFragTU(st, part, boxWidth)

RECURSIVE AddPartsTU(_, _, _, _)
AddPartsTU(st, parts, boxWidth, wrap) ==
    IF parts = <<>> THEN st
    ELSE AddPartsTU(AddPartTU(st, Head(parts), boxWidth, wrap),
                    Tail(parts), boxWidth, wrap)

BuildLinesTU(parts, boxWidth, wrap) ==
    Flush(AddPartsTU(EmptyAcc, parts, boxWidth, wrap)).lines

-----------------------------------------------------------------------------
(* text-utils.ts: draw emission of its drawTextArea *)

\* lineToWords: the non-empty tokens of every part of the line, white space
\* tokens included, each with the part it comes from.
lineToWords(line) ==
    Flatten([j \in 1..Len(line) |-> splitPartToWords(line[j])])

\* One line; yCursor in twentieths, x as xn / xd.
DrawLineTU(p, line, yCursor, isLastLine) ==
    LET lineWidth == LineWidth(line)
        n == Len(line)
        yOf(part) == yCursor - 20 * FontSizeOf(part)
    IN  IF p.align = "justify-parts" /\ n > 1 /\ ~isLastLine
        THEN LET d == n - 1
             IN  [j \in 1..n |->
                    DrawText(line[j],
                             d * (p.x + LineWidth(SubSeq(line, 1, j - 1)))
                                 + (j - 1) * (p.width - lineWidth), d,
                             yOf(line[j]), 20, p.color, p.opacity)]
        ELSE IF p.align = "justify-words" /\ ~isLastLine
        THEN LET words == lineToWords(line)
                 wordsWidth == LineWidth(words)
                 d == IF Len(words) - 1 > 1 THEN Len(words) - 1 ELSE 1
             IN  [k \in 1..Len(words) |->
                    DrawText(words[k],
                             d * (p.x + LineWidth(SubSeq(words, 1, k - 1)))
                                 + (k - 1) * (p.width - wordsWidth), d,
                             yOf(words[k]), 20, p.color, p.opacity)]
        ELSE LET x0 == StartX(p, lineWidth)
             IN  [j \in 1..n |->
                    DrawText(line[j], x0 + 2 * LineWidth(SubSeq(line, 1, j - 1)), 2,
                             yOf(line[j]), 20, p.color, p.opacity)]

DrawRectTU(p) ==
    IF p.drawRect
    THEN <<[cmd |-> "drawRectangle", x |-> p.x,
            y |-> (PageHeight - p.y) - p.height,
            width |-> p.width, height |-> p.height]>>
    ELSE <<>>

IsLastLine_Never(i, ls) == FALSE

IsLastLine(i, ls) == i = Len(ls)

drawTextAreaTU(p) ==
    LET ls == BuildLinesTU(p.parts, p.width, p.wrap)
        heights == LineHeights(ls, p.lineHeight)
        startY == StartY(p, SumSeq(heights))
    IN  [lines |-> ls,
         renderLines |-> ls,
         ret |-> <<>>,
         reports |-> <<>>,
         page |-> Flatten([i \in 1..Len(ls) |->
                      DrawLineTU(p, ls[i],
                                 startY - 2 * SumSeq(SubSeq(heights, 1, i - 1)),
                                 IsLastLine(i, ls))])
                  \o DrawRectTU(p)]

-----------------------------------------------------------------------------
(* drawTextLine: a single line, no wrapping *)

LineParts(p) ==
    IF p.align = "justifyWords"
    THEN Flatten([i \in 1..Len(p.parts) |-> splitPartToWords(p.parts[i])])
    ELSE groupPartsByStyle(p.parts)

MaxFontSize(lineParts) ==
    IF lineParts = <<>> THEN NegInfinity
    ELSE MaxOf({FontSizeOf(lineParts[j]) : j \in DOMAIN lineParts})

GapCount_Unguarded(p, lineParts) ==
    IF p.align \in {"justifyParts", "justifyWords"}
    THEN Len(lineParts) - 1 ELSE 1

\* The number of gaps the slack is divided by (1 when nothing is divided).
GapCount(p, lineParts) ==
    IF p.align \in {"justifyParts", "justifyWords"} /\ Len(lineParts) > 1
    THEN Len(lineParts) - 1 ELSE 1

\* The commands for the parts of the line; x as xn / (2 * gapCount), y in halves.
DrawLineParts(p, lineParts) ==
    LET lineWidth == LineWidth(lineParts)
        maxFontSize == MaxFontSize(lineParts)
        lineHeight == maxFontSize
        boxTop == PageHeight - p.y
        g == GapCount(p, lineParts)
        justified == p.align \in {"justifyParts", "justifyWords"}
        x0 == IF p.align = "center" THEN 2 * g * p.x + g * (p.width - lineWidth)
              ELSE IF p.align = "right" THEN 2 * g * p.x + 2 * g * (p.width - lineWidth)
              ELSE 2 * g * p.x
        \* gapWidth is 0 unless a justify branch with more than one part was taken
        gap2g == IF justified /\ Len(lineParts) > 1
                 THEN 2 * (p.width - lineWidth) ELSE 0
        yText == IF p.verticalAlign = "middle" THEN 2 * boxTop - (p.height - lineHeight)
                 ELSE IF p.verticalAlign = "bottom"
                 THEN 2 * boxTop - 2 * (p.height - lineHeight)
                 ELSE 2 * boxTop
    IN  [i \in 1..Len(lineParts) |->
            DrawText(lineParts[i],
                     x0 + 2 * g * LineWidth(SubSeq(lineParts, 1, i - 1))
                        + (i - 1) * gap2g, 2 * g,
                     yText - 2 * BaselineOffset(maxFontSize, FontSizeOf(lineParts[i])), 2,
                     p.color, p.opacity)]

drawTextLine(p) ==
    LET lineParts == LineParts(p)
        lineWidth == LineWidth(lineParts)
        lineHeight == MaxFontSize(lineParts)
        overflowX == lineWidth > p.width
        overflowY == lineHeight > p.height
        overflowed == overflowX \/ overflowY
        cmds == IF Hidden(p, overflowX, overflowY)
                THEN Isolated(p, DebugRect(p))
                ELSE Isolated(p, DrawLineParts(p, lineParts) \o DebugRect(p))
        info == [overflowed |-> overflowed,
                 overflowX |-> overflowX,
                 overflowY |-> overflowY,
                 lineWidth |-> lineWidth,
                 maxWidth |-> p.width,
                 lineHeight |-> lineHeight,
                 maxHeight |-> p.height,
                 parts |-> lineParts,
                 message |-> Message(overflowX, overflowY)]
        called == IF p.onOverflow THEN <<info>> ELSE <<>>
    IN  [lines |-> <<lineParts>>,
         renderLines |-> <<lineParts>>,
         ret |-> Effects(called, cmds),
         reports |-> called,
         page |-> cmds]

\* The caller's parts array after drawTextLine: flatMap(splitPartToWords)
\* builds new objects, groupPartsByStyle writes as GroupWrites says.
PartsAfterLine(p) ==
    IF p.align = "justifyWords" THEN p.parts ELSE GroupWrites(p.parts)

\* draw-text-line.ts: the drawTextLine of positional arguments.  Its body is
\* that of the drawTextLine above, statement for statement, without the three
\* `if (isolate) page.pushOperators(...)` statements.
drawTextLineDTL(p) == drawTextLine(p @@ [isolate |-> FALSE])

-----------------------------------------------------------------------------
(* pathBuilder.ts: PathBuilder and PathBuilderInstance.  Coordinates of path
   operators are kept doubled (x2, y2), since the ellipse and the rounded
   rectangle halve their arguments; the control points of the Bezier curves
   are left out, their end points kept. *)

yFromTop(y, height) == PageHeight - y - height

Op(name) == [cmd |-> name]

OpAt(name, x2, y2) == [cmd |-> name, x2 |-> x2, y2 |-> y2]

Min2(a, b) == IF a < b THEN a ELSE b

\* PathBuilder.rect
PathRect(x, y, width, height, radius) ==
    IF radius > 0
    THEN LET m2 == Min2(2 * radius, Min2(width, height))
             r2 == IF m2 > 0 THEN m2 ELSE 0
             left == 2 * x
             right == 2 * (x + width)
             bottom == 2 * y
             top == 2 * (y + height)
         IN  <<OpAt("moveTo", left + r2, bottom),
               OpAt("lineTo", right - r2, bottom),
               OpAt("appendBezierCurve", right, bottom + r2),
               OpAt("lineTo", right, top - r2),
               OpAt("appendBezierCurve", right - r2, top),
               OpAt("lineTo", left + r2, top),
               OpAt("appendBezierCurve", left, top - r2),
               OpAt("lineTo", left, bottom + r2),
               OpAt("appendBezierCurve", left + r2, bottom),
               Op("closePath")>>
    ELSE <<OpAt("moveTo", 2 * x, 2 * y),
           OpAt("lineTo", 2 * (x + width), 2 * y),
           OpAt("lineTo", 2 * (x + width), 2 * (y + height)),
           OpAt("lineTo", 2 * x, 2 * (y + height)),
           Op("closePath")>>

\* PathBuilder.ellipse, of doubled centre and radii.
PathEllipse(x2, y2, xRadius2, yRadius2) ==
    <<OpAt("moveTo", x2, y2 + yRadius2),
      OpAt("appendBezierCurve", x2 + xRadius2, y2),
      OpAt("appendBezierCurve", x2, y2 - yRadius2),
      OpAt("appendBezierCurve", x2 - xRadius2, y2),
      OpAt("appendBezierCurve", x2, y2 + yRadius2),
      Op("closePath")>>

\* Colours are known by their type; "none" is an absent colour.
FillColorOps(color) ==
    IF color = "CMYK" THEN <<Op("setFillingCmykColor")>>
    ELSE IF color = "RGB" THEN <<Op("setFillingRgbColor")>>
    ELSE IF color = "Grayscale" THEN <<Op("setFillingGrayscaleColor")>>
    ELSE <<>>

StrokeColorOps(color) ==
    IF color = "CMYK" THEN <<Op("setStrokingCmykColor")>>
    ELSE IF color = "RGB" THEN <<Op("setStrokingRgbColor")>>
    ELSE IF color = "Grayscale" THEN <<Op("setStrokingGrayscaleColor")>>
    ELSE <<>>

\* A width of -1 is an absent width.
LineWidthOps(width) ==
    IF width >= 0 THEN <<[cmd |-> "setLineWidth", width |-> width]>> ELSE <<>>

PathFill(color) == FillColorOps(color) \o <<Op("fill")>>

PathStroke(color, width) ==
    StrokeColorOps(color) \o LineWidthOps(width) \o <<Op("stroke")>>

PathFillAndStroke(fillColor, strokeColor, strokeWidth) ==
    FillColorOps(fillColor) \o StrokeColorOps(strokeColor)
        \o LineWidthOps(strokeWidth) \o <<Op("fillAndStroke")>>

\* `const { isolate = true, ...rest } = config`; "absent" is an absent field.
IsolateOf(config) == IF config.isolate = "absent" THEN "true" ELSE config.isolate

\* PathBuilder.rectPath and PathBuilder.ellipsePath: the instance created,
\* its builder's operators and its config.
rectPath(config) ==
    LET yPdf == IF config.fromTop THEN yFromTop(config.y, config.height) ELSE config.y
    IN  [operators |-> PathRect(config.x, yPdf, config.width, config.height,
                                config.radius),
         config |-> [config EXCEPT !.isolate = IsolateOf(config)]]

ellipsePath(config) ==
    LET y2 == IF config.fromTop
              THEN 2 * PageHeight - 2 * config.y - config.yRadius
              ELSE 2 * config.y + config.yRadius
    IN  [operators |-> PathEllipse(2 * config.x + config.xRadius, y2,
                                   config.xRadius, config.yRadius),
         config |-> [config EXCEPT !.isolate = IsolateOf(config)]]

hasFill(config) == config.fill # "none"

hasStroke(config) == config.stroke # "none"

hasDash(config) == config.dashArray # "none"

\* `'isolate' in obj && typeof obj.isolate === 'boolean'`
hasIsolate(config) == config.isolate \in {"true", "false"}

\* PathBuilderInstance.pushOperators on an instance and a page: the instance
\* and the page after the call.
InstPushOperators(inst, pg) ==
    LET c == inst.config
        styled == IF hasFill(c) /\ hasStroke(c)
                  THEN inst.operators \o PathFillAndStroke(c.fill, c.stroke, c.strokeWidth)
                  ELSE IF hasFill(c) THEN inst.operators \o PathFill(c.fill)
                  ELSE IF hasStroke(c)
                  THEN inst.operators \o PathStroke(c.stroke, c.strokeWidth)
                  ELSE inst.operators
    IN  [inst |-> [inst EXCEPT !.operators = styled],
         page |-> pg
                  \o (IF hasIsolate(c) THEN <<PushCmd>> ELSE <<>>)
                  \o (IF hasDash(c)
                      THEN <<[cmd |-> "setDashPattern", dashArray |-> c.dashArray,
                              dashPhase |-> c.dashPhase]>>
                      ELSE <<>>)
                  \o styled
                  \o (IF hasIsolate(c) THEN <<PopCmd>> ELSE <<>>)]

\* The height clip passes to yFromTop: hasHeight, else hasYRadius, else 0.
ClipHeight(config) ==
    IF config.shape = "rect" THEN config.height ELSE config.yRadius * 2

\* PathBuilderInstance.clip; the callback is seen by what it is given.
InstClip(inst, pg) ==
    LET c == inst.config
    IN  [inst |-> inst,
         page |-> pg \o <<PushCmd>> \o inst.operators
                  \o <<Op("clipEvenOdd"), Op("endPath")>>
                  \o <<[cmd |-> "callback", top |-> yFromTop(c.y, ClipHeight(c)),
                        left |-> c.x]>>
                  \o <<PopCmd>>]

\* A chain of calls on one instance.
RECURSIVE InstChain(_, _, _)
InstChain(inst, pg, chain) ==
    IF chain = <<>> THEN pg
    ELSE LET r == IF Head(chain) = "clip" THEN InstClip(inst, pg)
                  ELSE InstPushOperators(inst, pg)
         IN  InstChain(r.inst, r.page, Tail(chain))

-----------------------------------------------------------------------------
(* drawQRCode.  The matrix the QR library returns is an input: a function of
   <<row, col>>, both counted from 0, to whether the module is dark.  Absent
   options are given by their defaults: background cmyk(0,0,0,0), foreground
   cmyk(0,0,0,1), no border, no dash, radius 0, isolate true. *)

\* rectPath(page, config).pushOperators() on a fresh instance.
DrawRectPath(config) == InstPushOperators(rectPath(config), <<>>).page

\* The modules in the order the two loops visit them.
ModuleOrder(moduleCount) ==
    [k \in 1..(moduleCount * moduleCount) |->
        <<(k - 1) \div moduleCount, (k - 1) % moduleCount>>]

drawQRCode(p) ==
    LET moduleCount == p.moduleCount
        qrX == p.x + p.margin
        qrY == p.y + p.margin
        qrWidth == p.width - 2 * p.margin
        qrHeight == p.height - 2 * p.margin
        cellWidth == qrWidth \div moduleCount
        cellHeight == qrHeight \div moduleCount
        style == [shape |-> "rect", stroke |-> "none", strokeWidth |-> -1,
                  fill |-> "CMYK", dashArray |-> "none", dashPhase |-> 0,
                  fromTop |-> p.fromTop, isolate |-> "true", xRadius |-> 0,
                  yRadius |-> 0, radius |-> 0]
        background == style @@ [x |-> p.x, y |-> p.y, width |-> p.width,
                                height |-> p.height]
        Cell(rc) == style @@ [x |-> qrX + rc[2] * cellWidth,
                              y |-> qrY + cellHeight * (moduleCount - 1 - rc[1]),
                              width |-> cellWidth, height |-> cellHeight]
        dark == SelectSeq(ModuleOrder(moduleCount), LAMBDA rc : p.modules[rc])
    IN  DrawRectPath(background)
            \o Flatten([k \in 1..Len(dark) |-> DrawRectPath(Cell(dark[k]))])

-----------------------------------------------------------------------------
(* The arguments the calls are made with *)

Chars == {"a", "b", " "}

\* fontSize 0, color "none" and opacity 0 stand for an absent field.  src is
\* the index of the input part a fragment comes from; the code copies every
\* field of a part onto the fragments it cuts from it ({ ...part, text }).
Part(text, fontSize, newLine) ==
    [text |-> text, font |-> "F1", fontSize |-> fontSize, color |-> "none",
     opacity |-> 0, newLine |-> newLine, src |-> 0]

Tagged(ps) == [i \in 1..Len(ps) |-> [ps[i] EXCEPT !.src = i]]

PartLists(pool) == {Tagged(ps) : ps \in SeqsUpTo(pool, MaxParts)}

WordParts ==
    {Part(t, fs, FALSE) : t \in SeqsUpTo(Chars, MaxLen), fs \in {0, 20}}

AreaTexts == {<<"a", " ", "b">>, <<" ", "a">>}

AreaPool ==
    {Part(t, fs, nl) : t \in AreaTexts, fs \in {0, 20}, nl \in BOOLEAN}
    \cup {Part(<<>>, 0, nl) : nl \in BOOLEAN}
    \cup {[Part(<<"a">>, 0, FALSE) EXCEPT !.font = "F0"]}

AreaWidths == {12, 50}

AreaHeights == {10, 30, 90}

\* Degenerate box widths, tried without debug rectangle and hiding.
DegenerateWidths == {0, -5}

LinePool ==
    {Part(t, fs, FALSE) : t \in {<<"a">>, <<"a", " ", "b">>}, fs \in {0, 12, 24}}
    \cup {Part(<<>>, 0, FALSE), [Part(<<"a">>, 12, FALSE) EXCEPT !.color = "red"]}

\* Parts of every style difference groupPartsByStyle looks at.
GroupPool ==
    LinePool \cup {[Part(<<"a">>, 12, FALSE) EXCEPT !.opacity = 5],
                   [Part(<<"a">>, 12, FALSE) EXCEPT !.font = "F2"]}

FitWidths == {12, 24}

LineAligns == {"left", "center", "right", "justifyParts", "justifyWords"}

LineWidths == {30, 100}

LineBoxHeights == {20}

TUAligns == {"left", "center", "right", "justify-parts", "justify-words"}

-----------------------------------------------------------------------------
(* The state machine: one call per behaviour step *)

Init ==
    /\ pc = "idle"
    /\ op = "none"
    /\ args = <<>>
    /\ lines = <<>>
    /\ rendered = <<>>
    /\ reports = <<>>
    /\ page = <<>>
    /\ ret = <<>>

Returned(name, p, r) ==
    /\ pc' = "done"
    /\ op' = name
    /\ args' = p
    /\ lines' = r.lines
    /\ rendered' = r.renderLines
    /\ reports' = r.reports
    /\ page' = r.page
    /\ ret' = r.ret

CallSplitPartToWords ==
    /\ pc = "idle"
    /\ \E part \in WordParts :
        Returned("splitPartToWords", [part |-> part],
                 [lines |-> <<>>, renderLines |-> <<>>, reports |-> <<>>,
                  page |-> <<>>, ret |-> splitPartToWords(part)])

\* groupPartsByStyle(parts): the runs returned and the caller's array after.
CallGroupPartsByStyle ==
    /\ pc = "idle"
    /\ \E parts \in PartLists(GroupPool) :
        Returned("groupPartsByStyle", [parts |-> parts, after |-> GroupWrites(parts)],
                 [lines |-> <<>>, renderLines |-> <<>>, reports |-> <<>>,
                  page |-> <<>>, ret |-> groupPartsByStyle(parts)])

\* splitPartToFit(part, maxWidth) of text-utils.ts.
CallSplitPartToFit ==
    /\ pc = "idle"
    /\ \E part \in WordParts, maxWidth \in FitWidths :
        Returned("splitPartToFit", [part |-> part, maxWidth |-> maxWidth],
                 [lines |-> <<>>, renderLines |-> <<>>, reports |-> <<>>,
                  page |-> <<>>, ret |-> splitPartToFit(part, maxWidth)])

CallDrawTextArea ==
    /\ pc = "idle"
    /\ \E parts \in PartLists(AreaPool), width \in AreaWidths \cup DegenerateWidths,
          height \in AreaHeights,
          autoWrap \in BOOLEAN, clipOverflow \in BOOLEAN, hideOnOverflow \in BOOLEAN,
          debug \in BOOLEAN, verticalAlign \in {"top", "middle", "bottom"} :
        /\ (width <= 0 => (~hideOnOverflow /\ ~debug))
        /\ (verticalAlign # "top" =>
               (~hideOnOverflow /\ ~debug /\ autoWrap /\ width = MaxOf(AreaWidths)))
        /\ LET p == [parts |-> parts, x |-> 20, y |-> 100, width |-> width,
                     height |-> height, align |-> "left",
                     verticalAlign |-> verticalAlign,
                     autoWrap |-> autoWrap, lineHeight |-> 10, color |-> "black",
                     opacity |-> 1, clipOverflow |-> clipOverflow,
                     hideOnOverflow |-> hideOnOverflow, onOverflow |-> TRUE,
                     debug |-> debug, isolate |-> TRUE]
               r == drawTextArea(p)
           IN  Returned("drawTextArea", p, r)

CallDrawTextAreaTU ==
    /\ pc = "idle"
    /\ \E parts \in PartLists(AreaPool), width \in AreaWidths, wrap \in BOOLEAN,
          align \in TUAligns :
        LET p == [parts |-> parts, x |-> 20, y |-> 100, width |-> width,
                  height |-> 90, align |-> align, verticalAlign |-> "top",
                  wrap |-> wrap, lineHeight |-> 12, color |-> "none",
                  opacity |-> 0, drawRect |-> FALSE]
            r == drawTextAreaTU(p)
        IN  Returned("drawTextAreaTU", p,
                     r)

CallDrawTextLine ==
    /\ pc = "idle"
    /\ \E parts \in PartLists(LinePool), width \in LineWidths,
          height \in LineBoxHeights, align \in LineAligns,
          verticalAlign \in {"top", "middle", "bottom"},
          hideOnOverflow \in BOOLEAN, debug \in BOOLEAN :
        LET p == [parts |-> parts, x |-> 20, y |-> 100, width |-> width,
                  height |-> height, align |-> align,
                  verticalAlign |-> verticalAlign, color |-> "black",
                  opacity |-> 1, hideOnOverflow |-> hideOnOverflow,
                  onOverflow |-> TRUE, debug |-> debug, isolate |-> TRUE]
            r == drawTextLine(p)
        IN  Returned("drawTextLine", p,
                     r)

\* A second call of drawTextLine with the same parts array, box and options.
\* ret keeps the commands of the first call and the parts as first given.
CallDrawTextLineAgain ==
    /\ pc = "done"
    /\ op = "drawTextLine"
    /\ args.verticalAlign = "top"
    /\ ~args.debug
    /\ LET p == [args EXCEPT !.parts = PartsAfterLine(args)]
           r == drawTextLine(p)
       IN  /\ pc' = "again"
           /\ op' = op
           /\ args' = [p EXCEPT !.parts = PartsAfterLine(p)]
           /\ lines' = r.lines
           /\ rendered' = r.renderLines
           /\ reports' = r.reports
           /\ page' = r.page
           /\ ret' = [page |-> page, parts |-> args.parts]

CallDrawTextLineDTL ==
    /\ pc = "idle"
    /\ \E parts \in PartLists(LinePool), width \in LineWidths,
          height \in LineBoxHeights, align \in LineAligns,
          hideOnOverflow \in BOOLEAN, debug \in BOOLEAN :
        LET p == [parts |-> parts, x |-> 20, y |-> 100, width |-> width,
                  height |-> height, align |-> align,
                  verticalAlign |-> "top", color |-> "black",
                  opacity |-> 1, hideOnOverflow |-> hideOnOverflow,
                  onOverflow |-> TRUE, debug |-> debug]
            r == drawTextLineDTL(p)
        IN  Returned("drawTextLineDTL", p,
                     r)

PathChains ==
    {<<"pushOperators">>, <<"clip">>, <<"clip", "pushOperators">>,
     <<"pushOperators", "clip">>, <<"pushOperators", "pushOperators">>}

PathConfigs ==
    {[shape |-> shape, x |-> 20, y |-> 30, width |-> 200, height |-> 150,
      xRadius |-> 200, yRadius |-> 150, radius |-> radius, stroke |-> stroke,
      strokeWidth |-> strokeWidth, fill |-> fill, dashArray |-> dashArray,
      dashPhase |-> 0, fromTop |-> fromTop, isolate |-> isolate] :
        shape \in {"rect", "ellipse"}, radius \in {0, 2},
        stroke \in {"none", "CMYK"}, strokeWidth \in {-1, 1},
        fill \in {"none", "RGB"}, dashArray \in {"none", "dashed"},
        fromTop \in BOOLEAN, isolate \in {"absent", "true", "false"}}

\* PathBuilder.rectPath(page, config) or ellipsePath(page, config), followed
\* by a chain of pushOperators() and clip(callback).
CallPath ==
    /\ pc = "idle"
    /\ \E config \in PathConfigs, chain \in PathChains :
        LET inst == IF config.shape = "rect" THEN rectPath(config)
                    ELSE ellipsePath(config)
        IN  Returned("path", [config |-> config, chain |-> chain],
                     [lines |-> <<>>, renderLines |-> <<>>, reports |-> <<>>,
                      page |-> InstChain(inst, <<>>, chain), ret |-> <<>>])

QRModuleCounts == {1, 2}

QRMatrices(moduleCount) ==
    [(0..(moduleCount - 1)) \X (0..(moduleCount - 1)) -> BOOLEAN]

\* drawQRCode(page, options) on a page of PageHeight, with the matrix of the
\* data.
CallDrawQRCode ==
    /\ pc = "idle"
    /\ \E moduleCount \in QRModuleCounts, margin \in {0, 10},
          height \in {60, 100}, fromTop \in BOOLEAN :
        \E modules \in QRMatrices(moduleCount) :
            LET p == [modules |-> modules, moduleCount |-> moduleCount,
                      x |-> 100, y |-> 200, width |-> 100, height |-> height,
                      margin |-> margin, fromTop |-> fromTop]
            IN  Returned("drawQRCode", p,
                         [lines |-> <<>>, renderLines |-> <<>>, reports |-> <<>>,
                          page |-> drawQRCode(p), ret |-> <<>>])

Next ==
    \/ CallPath
    \/ CallDrawQRCode
    \/ CallSplitPartToFit
    \/ CallGroupPartsByStyle
    \/ CallSplitPartToWords
    \/ CallDrawTextArea
    \/ CallDrawTextAreaTU
    \/ CallDrawTextLine
    \/ CallDrawTextLineAgain
    \/ CallDrawTextLineDTL

Spec == Init /\ [][Next]_vars

\* The calls of one operation, or of the two line builders.
SpecWords == Init /\ [][CallSplitPartToWords]_vars

SpecArea == Init /\ [][CallDrawTextArea]_vars

SpecBuild == Init /\ [][CallDrawTextArea \/ CallDrawTextAreaTU]_vars

SpecLine == Init /\ [][CallDrawTextLine \/ CallDrawTextLineAgain]_vars

SpecGroup == Init /\ [][CallGroupPartsByStyle]_vars

SpecFit == Init /\ [][CallSplitPartToFit]_vars

SpecPath == Init /\ [][CallPath]_vars

SpecQR == Init /\ [][CallDrawQRCode]_vars

SpecIsolated == Init /\ [][CallDrawTextArea \/ CallDrawTextLine]_vars

-----------------------------------------------------------------------------
(* What the properties below read from a finished call *)

Done(name) == pc = "done" /\ op = name

IsBuilder == pc = "done" /\ op \in {"drawTextArea", "drawTextAreaTU"}

WrapOn == IF op = "drawTextArea" THEN args.autoWrap ELSE args.wrap

MinOf(S) == CHOOSE m \in S : \A x \in S : m <= x

LineTexts(ls) == [i \in 1..Len(ls) |-> TextOf(ls[i])]

IsDrawText(c) == c.cmd = "drawText"

DrawTexts(cmds) == SelectSeq(cmds, IsDrawText)

\* The text drawn on each row of the page: consecutive drawText commands of
\* the same y, concatenated.
RowLen(d) ==
    CHOOSE n \in 1..Len(d) :
        /\ \A i \in 1..n : d[i].yn = d[1].yn
        /\ (n = Len(d) \/ d[n + 1].yn # d[1].yn)

RECURSIVE RowTexts(_)
RowTexts(d) ==
    IF d = <<>> THEN <<>>
    ELSE LET n == RowLen(d)
         IN  <<Flatten([i \in 1..n |-> d[i].text])>>
             \o RowTexts(SubSeq(d, n + 1, Len(d)))

DrawnLineTexts == RowTexts(DrawTexts(page))

\* The cut point as the properties state it: the first line (0-based) at
\* which the cumulative height, per line the maximum of (fontSize or 12) x
\* lineHeight, exceeds the box height; -1 when there is none.
StatedHeight(line, lineHeight) ==
    MaxOf({(IF line[j].fontSize = 0 THEN 12 ELSE line[j].fontSize) * lineHeight :
              j \in DOMAIN line})

StatedOver(ls, lineHeight, height) ==
    {k \in 1..Len(ls) :
        SumSeq([i \in 1..k |-> StatedHeight(ls[i], lineHeight)]) > height * 10}

StatedCut(ls, lineHeight, height) ==
    IF StatedOver(ls, lineHeight, height) = {} THEN -1
    ELSE MinOf(StatedOver(ls, lineHeight, height)) - 1

CutOfCall == StatedCut(lines, args.lineHeight, args.height)

IndicesFrom(k, n) == [i \in 1..(n - k) |-> k + (i - 1)]

\* The fragments of all lines in order, and the positions that start a line.
Flat == Flatten(lines)

LineStarts == {1 + SumSeq([m \in 1..(l - 1) |-> Len(lines[m])]) : l \in DOMAIN lines}

FragsOf(i) == SelectSeq(Flat, LAMBDA f : f.src = i)

IsPrefix(s, t) == Len(s) <= Len(t) /\ s = SubSeq(t, 1, Len(s))

-----------------------------------------------------------------------------
(* C1 .. C10 *)

\* C1: No information loss or reordering in line building: the text of all
\* fragments of all built lines, in line order (the rendered lines followed by
\* the overflowedLines), is the text of the input parts in input order, and
\* the fragments keep the order of the parts they come from.
C1_NoInformationLoss ==
    IsBuilder =>
        LET ov == IF reports = <<>> THEN <<>> ELSE reports[1].overflowedLines
            built == Flatten(rendered \o ov)
        IN  /\ TextOf(built) = TextOf(args.parts)
            /\ TextOf(Flat) = TextOf(args.parts)
            /\ \A i, j \in DOMAIN built : i < j => built[i].src <= built[j].src

\* A wrapped two-part text of which the clip policy cut the last lines off.
C1_Witness ==
    /\ Done("drawTextArea")
    /\ args.autoWrap /\ args.clipOverflow
    /\ Len(args.parts) = 2
    /\ Len(lines) >= 3
    /\ reports # <<>>
    /\ Len(reports[1].overflowedLines) >= 1
    /\ Len(rendered) >= 1

\* C2: splitPartToWords round trip: the texts of the returned parts, in
\* order, concatenate to the text of the part (empty and white-space-only
\* texts included).
C2_SplitRoundTrip ==
    Done("splitPartToWords") => TextOf(ret) = args.part.text

\* A text that starts with white space and splits into three tokens.
C2_Witness ==
    /\ Done("splitPartToWords")
    /\ Len(ret) = 3
    /\ IsSpace(args.part.text[1])

\* C3 as stated: with clipOverflow = true, if a cut point k exists exactly the
\* lines 0..k-1 are rendered and the report carries lines k..n-1, their indices
\* and renderedLines = k; if none exists all lines are rendered.
C3_ClipPolicy_Original ==
    (Done("drawTextArea") /\ args.clipOverflow) =>
        LET k == CutOfCall
        IN  IF k # -1
            THEN /\ DrawnLineTexts = LineTexts(SubSeq(lines, 1, k))
                 /\ reports # <<>>
                 /\ reports[1].overflowedLines = SubSeq(lines, k + 1, Len(lines))
                 /\ reports[1].overflowedLineIndices = IndicesFrom(k, Len(lines))
                 /\ reports[1].renderedLines = k
            ELSE DrawnLineTexts = LineTexts(lines)

\* C3 amended: the same, the rendering being claimed only when hideOnOverflow
\* is not set (the report is the same for every setting of hideOnOverflow).
C3_ClipPolicy ==
    (Done("drawTextArea") /\ args.clipOverflow) =>
        LET k == CutOfCall
        IN  IF k # -1
            THEN /\ ~args.hideOnOverflow =>
                        DrawnLineTexts = LineTexts(SubSeq(lines, 1, k))
                 /\ reports # <<>>
                 /\ reports[1].overflowedLines = SubSeq(lines, k + 1, Len(lines))
                 /\ reports[1].overflowedLineIndices = IndicesFrom(k, Len(lines))
                 /\ reports[1].renderedLines = k
            ELSE ~args.hideOnOverflow => DrawnLineTexts = LineTexts(lines)

\* Five lines of height 20 in a box of height 90, clipped: four are drawn.
C3_Witness ==
    /\ Done("drawTextArea")
    /\ args.clipOverflow /\ ~args.hideOnOverflow
    /\ args.height = 90
    /\ Len(lines) = 5
    /\ \A i \in DOMAIN lines : StatedHeight(lines[i], args.lineHeight) = 200
    /\ reports # <<>>
    /\ reports[1].renderedLines = 4
    /\ reports[1].overflowedLineIndices = <<4>>
    /\ Len(DrawnLineTexts) = 4

OverflowDetected == reports # <<>> /\ reports[1].overflowed

\* C4 as stated: when hideOnOverflow is set and overflow is detected,
\* drawTextArea and drawTextLine emit no draw call to the page.
C4_HidePolicy_Original ==
    (pc = "done" /\ op \in {"drawTextArea", "drawTextLine"}
        /\ args.hideOnOverflow /\ OverflowDetected) =>
        \A i \in DOMAIN page : page[i].cmd \notin {"drawText", "drawRectangle"}

\* C4 amended: when hideOnOverflow is set and overflow is detected, no text is
\* drawn; the page receives only the graphics state pair and, with
\* debugOptions.debug, the debug rectangle.
C4_HidePolicy ==
    (pc = "done" /\ op \in {"drawTextArea", "drawTextLine"}
        /\ args.hideOnOverflow /\ OverflowDetected) =>
        /\ \A i \in DOMAIN page : page[i].cmd # "drawText"
        /\ \A i \in DOMAIN page : page[i].cmd = "drawRectangle" => args.debug

\* A hidden box that overflows in width only, with the debug rectangle drawn.
C4_Witness ==
    /\ Done("drawTextArea")
    /\ args.hideOnOverflow /\ args.debug
    /\ OverflowDetected
    /\ reports[1].overflowX /\ ~reports[1].overflowY
    /\ \E i \in DOMAIN page : page[i].cmd = "drawRectangle"
    /\ \A i \in DOMAIN page : page[i].cmd # "drawText"

\* C5: whenever onOverflow is called with overflowY = true, overflowedLines is
\* the list of lines from the cut point on and overflowedLineIndices holds
\* their original indices, for every setting of clipOverflow.
C5_ReportListsOverflow ==
    (Done("drawTextArea") /\ reports # <<>> /\ reports[1].overflowY) =>
        LET k == CutOfCall
        IN  /\ k # -1
            /\ reports[1].overflowedLines = SubSeq(lines, k + 1, Len(lines))
            /\ reports[1].overflowedLineIndices = IndicesFrom(k, Len(lines))

\* C6: report-only policy: with clipOverflow = false and hideOnOverflow =
\* false the call returns having drawn the text of every built line, the lines
\* beyond the box height included, and overflow is told through onOverflow.
C6_ReportOnly ==
    (Done("drawTextArea") /\ ~args.clipOverflow /\ ~args.hideOnOverflow) =>
        LET overflowY == CutOfCall # -1
            overflowX == \E l \in DOMAIN lines : LineWidth(lines[l]) > args.width
        IN  /\ DrawnLineTexts = LineTexts(lines)
            /\ (overflowX \/ overflowY) <=> reports # <<>>
            /\ reports # <<>> =>
                    /\ reports[1].overflowed
                    /\ reports[1].overflowY = overflowY
                    /\ reports[1].overflowX = overflowX
                    /\ reports[1].renderedLines = Len(lines)

\* At least two lines lie beyond the box height and all lines are drawn.
C6_Witness ==
    /\ Done("drawTextArea")
    /\ ~args.clipOverflow /\ ~args.hideOnOverflow
    /\ CutOfCall # -1
    /\ Len(lines) >= CutOfCall + 3
    /\ Len(DrawnLineTexts) = Len(lines)
    /\ reports # <<>>

\* C7: forced break: for every part with newLine = true and non-empty text,
\* the first fragment cut from that part is the first fragment of a line (so
\* the line accumulated before it was flushed), whatever the widths and the
\* wrap setting.
C7_ForcedBreak ==
    IsBuilder =>
        \A i \in DOMAIN args.parts :
            (args.parts[i].newLine /\ args.parts[i].text # <<>>) =>
                LET at == {k \in DOMAIN Flat : Flat[k].src = i}
                IN  /\ at # {}
                    /\ MinOf(at) \in LineStarts
                    /\ Flat[MinOf(at)].text # <<>>
                    /\ IsPrefix(Flat[MinOf(at)].text, args.parts[i].text)

\* Wrapping off, a first part with text, a second part with newLine and text:
\* two lines.
C7_Witness ==
    /\ Done("drawTextArea")
    /\ ~args.autoWrap
    /\ Len(args.parts) = 2
    /\ args.parts[1].text # <<>>
    /\ args.parts[2].newLine /\ args.parts[2].text # <<>>
    /\ Len(lines) = 2

\* C8: wrap disabled: with wrapping off (autoWrap = false in
\* draw-text-area.ts, wrap = false in text-utils.ts) a line boundary occurs
\* only immediately before a part whose newLine flag is set, and no part's
\* text is divided between two lines.  (Stated for parts of non-empty text.)
C8_WrapDisabled ==
    (IsBuilder /\ ~WrapOn /\ \A i \in DOMAIN args.parts : args.parts[i].text # <<>>) =>
        /\ \A l \in DOMAIN lines : l > 1 =>
                /\ args.parts[lines[l][1].src].newLine
                /\ lines[l - 1][Len(lines[l - 1])].src # lines[l][1].src
        /\ \A i \in DOMAIN args.parts :
                Cardinality({l \in DOMAIN lines :
                                \E j \in DOMAIN lines[l] : lines[l][j].src = i}) <= 1

OverWide(i) == partWidth(args.parts[i]) > args.width

KeepsText(i) == TextOf(FragsOf(i)) = args.parts[i].text

\* C9 as stated: with wrapping on, a part wider than the box is alone on its
\* line(s): no line that holds any of its text holds text of another part; and
\* none of its text is dropped.
C9_OverWideAlone_Original ==
    (IsBuilder /\ WrapOn) =>
        \A i \in DOMAIN args.parts : OverWide(i) =>
            /\ KeepsText(i)
            /\ \A l \in DOMAIN lines :
                    (\E j \in DOMAIN lines[l] : lines[l][j].src = i) =>
                        \A j \in DOMAIN lines[l] : lines[l][j].src = i

\* C9 amended: with wrapping on, none of the text of a part wider than the box
\* is dropped, and every fragment of it that is itself wider than the box is
\* alone on its line; its other fragments may share a line with other parts.
C9_OverWide ==
    (IsBuilder /\ WrapOn) =>
        \A i \in DOMAIN args.parts : OverWide(i) =>
            /\ KeepsText(i)
            /\ \A l \in DOMAIN lines : \A j \in DOMAIN lines[l] :
                    (lines[l][j].src = i /\ partWidth(lines[l][j]) > args.width) =>
                        Len(lines[l]) = 1

\* A part wider than the box after another part, cut into fragments of which
\* one is wider than the box.
C9_Witness ==
    /\ IsBuilder /\ WrapOn
    /\ Len(args.parts) = 2
    /\ args.parts[1].text # <<>>
    /\ OverWide(2)
    /\ Len(FragsOf(2)) >= 2
    /\ \E l \in DOMAIN lines :
            /\ lines[l][1].src = 2
            /\ partWidth(lines[l][1]) > args.width

\* C10: drawTextLine with align justifyParts and N >= 2 input parts draws the
\* N parts with (width - lineWidth) divided evenly over the N-1 gaps between
\* them: the first part starts at the box left and the last part ends at the
\* box right, also when adjacent parts have the same style.  (Stated for parts
\* of non-empty text, when the text is drawn.)
C10_JustifyParts ==
    (Done("drawTextLine") /\ args.align = "justifyParts" /\ Len(args.parts) >= 2
        /\ (\A i \in DOMAIN args.parts : args.parts[i].text # <<>>)
        /\ ~(args.hideOnOverflow /\ OverflowDetected)) =>
        LET d == DrawTexts(page)
            n == Len(args.parts)
            slack == args.width - LineWidth(args.parts)
        IN  /\ Len(d) = n
            /\ d[1].xn = d[1].xd * args.x
            /\ d[n].xn + d[n].xd * partWidth(args.parts[n])
                   = d[n].xd * (args.x + args.width)
            /\ \A i \in 1..(n - 1) :
                   (n - 1) * (d[i + 1].xn - d[i].xn - d[i].xd * partWidth(args.parts[i]))
                       = d[i].xd * slack


-----------------------------------------------------------------------------
(* C11 .. C20 *)

AllSpace(text) == \A i \in DOMAIN text : IsSpace(text[i])

IsWordCmd(c) == ~AllSpace(c.text)

WordCmds(row) == SelectSeq(row, IsWordCmd)

CmdWidth(c) == widthOfTextAtSize(c.font, c.text, c.size)

\* The number of drawText commands text-utils.ts emits for line i (1-based),
\* and the commands of that line.
TURowCount(i) ==
    IF args.align = "justify-words" /\ i < Len(lines)
    THEN Len(lineToWords(lines[i])) ELSE Len(lines[i])

TURow(i) ==
    LET before == SumSeq([m \in 1..(i - 1) |-> TURowCount(m)])
    IN  SubSeq(DrawTexts(page), before + 1, before + TURowCount(i))

\* The words of a row are spread over the box: the first starts at the box
\* left, the last ends at the box right, and every gap between consecutive
\* words is (width - sum of the word widths) / (N - 1).
SpreadByWord(row, x, width) ==
    LET w == WordCmds(row)
        N == Len(w)
        slack == width - SumSeq([i \in 1..N |-> CmdWidth(w[i])])
    IN  N >= 2 =>
            /\ w[1].xn = x * w[1].xd
            /\ w[N].xn + CmdWidth(w[N]) * w[N].xd = (x + width) * w[N].xd
            /\ \A i \in 1..(N - 1) :
                   (N - 1) * (w[i + 1].xn - w[i].xn - CmdWidth(w[i]) * w[i].xd)
                       = slack * w[i].xd

\* C11: Justify-by-word: white space tokens are not words and add no width of
\* their own; with N words on the line the slack, box width minus the sum of
\* the N word widths, is divided equally over the N - 1 gaps between
\* consecutive words, so the first word starts at the box left and the last
\* word ends at the box right (drawTextLine with justifyWords, and every line
\* but the last of the text-utils.ts drawTextArea with justify-words).
C11_JustifyWords ==
    /\ (Done("drawTextLine") /\ args.align = "justifyWords")
           => SpreadByWord(DrawTexts(page), args.x, args.width)
    /\ (Done("drawTextAreaTU") /\ args.align = "justify-words")
           => \A i \in 1..(Len(lines) - 1) :
                  SpreadByWord(TURow(i), args.x, args.width)

JustifyAlign == {"justifyParts", "justifyWords", "justify-parts", "justify-words"}

\* C12: Justify fallback: under a justify alignment a line of exactly one
\* fragment is drawn starting at the box left with no gap added, and no
\* division by zero is performed for any number of fragments, zero included
\* (every x emitted has a non-zero denominator).
C12_JustifyFallback ==
    (pc = "done" /\ op \in {"drawTextLine", "drawTextAreaTU"}
        /\ args.align \in JustifyAlign) =>
        /\ \A k \in DOMAIN page : IsDrawText(page[k]) => page[k].xd # 0
        /\ (op = "drawTextLine" /\ Len(DrawTexts(page)) = 1)
               => DrawTexts(page)[1].xn = args.x * DrawTexts(page)[1].xd
        /\ op = "drawTextAreaTU"
               => \A i \in DOMAIN lines :
                      TURowCount(i) = 1 => TURow(i)[1].xn = args.x * TURow(i)[1].xd

C12_Witness ==
    /\ Done("drawTextLine")
    /\ args.align = "justifyParts"
    /\ Len(args.parts) = 1
    /\ args.parts[1].text # <<>>
    /\ args.width > LineWidth(args.parts)
    /\ Len(DrawTexts(page)) = 1

\* The fragments of a row follow each other with no gap from the box left.
Contiguous(row, x) ==
    /\ row # <<>> => row[1].xn = x * row[1].xd
    /\ \A j \in 1..(Len(row) - 1) :
           row[j + 1].xn * row[j].xd
               = (row[j].xn + CmdWidth(row[j]) * row[j].xd) * row[j + 1].xd

\* The fragments of a row are spread over the box: the first starts at the box
\* left and every gap is (width - sum of the fragment widths) / (n - 1).
SpreadByFragment(row, x, width) ==
    LET n == Len(row)
        slack == width - SumSeq([j \in 1..n |-> CmdWidth(row[j])])
    IN  n >= 2 =>
            /\ row[1].xn = x * row[1].xd
            /\ \A j \in 1..(n - 1) :
                   (n - 1) * (row[j + 1].xn - row[j].xn - CmdWidth(row[j]) * row[j].xd)
                       = slack * row[j].xd

\* C13: Last line not justified: in the multi-line area layout of
\* text-utils.ts under justify-parts or justify-words, every line except the
\* last is drawn with the slack distributed over its gaps, and the last line
\* is drawn from the box left with natural spacing, part by part; a paragraph
\* of a single line is never justified.
C13_LastLineNotJustified ==
    (Done("drawTextAreaTU") /\ args.align \in {"justify-parts", "justify-words"}
        /\ lines # <<>>) =>
        LET n == Len(lines)
        IN  /\ \A i \in 1..(n - 1) : SpreadByFragment(TURow(i), args.x, args.width)
            /\ Contiguous(TURow(n), args.x)
            /\ [j \in 1..Len(TURow(n)) |-> TURow(n)[j].text]
                   = [j \in 1..Len(lines[n]) |-> lines[n][j].text]
            /\ Len(DrawTexts(page)) = SumSeq([i \in 1..n |-> TURowCount(i)])

C13_Witness ==
    /\ Done("drawTextAreaTU")
    /\ args.align = "justify-words"
    /\ Len(lines) = 2
    /\ Len(TURow(1)) >= 2
    /\ args.width # SumSeq([j \in 1..Len(TURow(1)) |-> CmdWidth(TURow(1)[j])])
    /\ Len(lines[2]) = 2
    /\ Len(lineToWords(lines[2])) > 2

\* C14: Overflow classification and message precedence: in every report of
\* drawTextArea and drawTextLine overflowed = overflowX OR overflowY and the
\* message is fixed by (overflowX, overflowY): both, X only, Y only, neither;
\* for drawTextLine overflowX = (lineWidth > width), overflowY = (maximum font
\* size > height), with lineWidth the measured width of the line.
C14_OverflowMessage ==
    (pc = "done" /\ op \in {"drawTextArea", "drawTextLine", "drawTextLineDTL"}) =>
        \A k \in DOMAIN reports :
            LET r == reports[k]
            IN  /\ r.overflowed = (r.overflowX \/ r.overflowY)
                /\ (r.overflowX /\ r.overflowY)
                       => r.message = "Text overflows both X (width) and Y (height)"
                /\ (r.overflowX /\ ~r.overflowY) => r.message = "Text overflows X (width)"
                /\ (~r.overflowX /\ r.overflowY) => r.message = "Text overflows Y (height)"
                /\ (~r.overflowX /\ ~r.overflowY) => r.message = "Text fits within the box"
                /\ op = "drawTextLine" =>
                       /\ r.maxWidth = args.width /\ r.maxHeight = args.height
                       /\ r.lineWidth = LineWidth(lines[1])
                       /\ r.overflowX = (r.lineWidth > args.width)
                       /\ lines[1] # <<>> =>
                              r.overflowY =
                                  (MaxOf({FontSizeOf(lines[1][j]) : j \in DOMAIN lines[1]})
                                      > args.height)

C14_Witness ==
    /\ Done("drawTextLine")
    /\ Len(reports) = 1
    /\ reports[1].lineWidth > reports[1].maxWidth
    /\ reports[1].lineHeight <= reports[1].maxHeight
    /\ reports[1].overflowed
    /\ reports[1].message = "Text overflows X (width)"

\* The text does not fit the box of the finished call, read from the lines it
\* laid out and not from its report.
OverflowsBox ==
    IF op = "drawTextLine"
    THEN \/ LineWidth(lines[1]) > args.width
         \/ /\ lines[1] # <<>>
            /\ MaxOf({FontSizeOf(lines[1][j]) : j \in DOMAIN lines[1]}) > args.height
    ELSE \/ \E i \in DOMAIN rendered : LineWidth(rendered[i]) > args.width
         \/ CutOfCall # -1

\* C15: onOverflow is invoked if and only if overflow occurs: in drawTextArea
\* and drawTextLine the callback is called (once) when the text overflows the
\* box and is not called when the text fits.
C15_OnOverflowIff ==
    (pc = "done" /\ op \in {"drawTextArea", "drawTextLine"} /\ args.onOverflow) =>
        /\ OverflowsBox => Len(reports) = 1
        /\ ~OverflowsBox => reports = <<>>

\* The number of drawText commands drawTextArea emits for rendered line i
\* (1-based), and the commands of that line.
AreaRowCount(i) == Len(groupPartsByStyle(rendered[i]))

AreaRow(i) ==
    LET before == SumSeq([m \in 1..(i - 1) |-> AreaRowCount(m)])
    IN  SubSeq(DrawTexts(page), before + 1, before + AreaRowCount(i))

MaxSize(row) == MaxOf({row[j].size : j \in DOMAIN row})

\* C16: Baseline alignment: in drawTextArea and drawTextLine all fragments
\* drawn on the same line receive the same draw y, the line's cursor minus the
\* line's maximum font size, whatever their own font sizes.  The cursor of
\* line i of a top-aligned area is the box top minus the heights of the lines
\* above; the cursor of a top-aligned single line is the box top.
C16_Baseline ==
    /\ Done("drawTextLine") =>
           LET d == DrawTexts(page)
           IN  /\ \A i, j \in DOMAIN d : d[i].yn = d[j].yn /\ d[i].yd = d[j].yd
               /\ (d # <<>> /\ args.verticalAlign = "top") =>
                      d[1].yn = d[1].yd * ((PageHeight - args.y) - MaxSize(d))
    /\ (Done("drawTextArea") /\ DrawTexts(page) # <<>>) =>
           \A i \in DOMAIN rendered :
               LET row == AreaRow(i)
                   above == SumSeq([m \in 1..(i - 1) |->
                                       StatedHeight(rendered[m], args.lineHeight)])
               IN  \A j \in DOMAIN row :
                       /\ row[j].yd = 20
                       /\ row[j].yn = row[1].yn
                       /\ args.verticalAlign = "top" =>
                              row[j].yn = 20 * (PageHeight - args.y) - 2 * above
                                              - 20 * MaxSize(row)

C16_Witness ==
    /\ Done("drawTextLine")
    /\ \E i, j \in DOMAIN page :
           /\ IsDrawText(page[i]) /\ IsDrawText(page[j])
           /\ page[i].size = 12 /\ page[j].size = 24
           /\ page[i].yn = page[j].yn

IsStateCmd(c) == c.cmd \in {"pushGraphicsState", "popGraphicsState"}

\* C17: Graphics-state isolation of the text utilities: every call of
\* drawTextArea or drawTextLine with default options brackets all commands it
\* emits to the page between exactly one pushGraphicsState and one matching
\* popGraphicsState, on every return path (normal completion and the
\* hide-on-overflow early return).
C17_Isolation ==
    (pc = "done" /\ op \in {"drawTextArea", "drawTextLine", "drawTextLineDTL"}) =>
        /\ Len(page) >= 2
        /\ page[1] = PushCmd
        /\ page[Len(page)] = PopCmd
        /\ \A k \in 2..(Len(page) - 1) : ~IsStateCmd(page[k])

\* C18: Path isolate flag: PathBuilder.rectPath(...).pushOperators() and
\* PathBuilder.ellipsePath(...).pushOperators() emit pushGraphicsState before
\* and popGraphicsState after the path operators if and only if the config's
\* isolate is true (the default); with isolate: false no graphics-state push
\* or pop is emitted.
C18_PathIsolate ==
    (Done("path") /\ args.chain = <<"pushOperators">>) =>
        IF args.config.isolate \in {"absent", "true"}
        THEN /\ Len(page) >= 2
             /\ page[1] = PushCmd
             /\ page[Len(page)] = PopCmd
             /\ \A k \in 2..(Len(page) - 1) : ~IsStateCmd(page[k])
        ELSE \A k \in DOMAIN page : ~IsStateCmd(page[k])

C20_DegenerateWidth ==
    (Done("drawTextArea") /\ args.width <= 0
        /\ \E i \in DOMAIN args.parts : partWidth(args.parts[i]) > 0) =>
        /\ Len(reports) = 1
        /\ reports[1].overflowX

\* The same with clipOverflow not set.
C20_DegenerateWidth_NoClip ==
    (Done("drawTextArea") /\ args.width <= 0 /\ ~args.clipOverflow
        /\ \E i \in DOMAIN args.parts : partWidth(args.parts[i]) > 0) =>
        /\ Len(reports) = 1
        /\ reports[1].overflowX


-----------------------------------------------------------------------------
(* C21 .. C30 *)

\* C21: No empty lines: after building lines from any parts list (parts of
\* empty text, consecutive newLine parts and a leading newLine part included),
\* no line of the line list has zero fragments.
C21_NoEmptyLines ==
    IsBuilder => \A i \in DOMAIN lines : Len(lines[i]) > 0

C21_Witness ==
    /\ Done("drawTextArea")
    /\ Len(args.parts) = 2
    /\ args.parts[1].newLine /\ args.parts[2].newLine
    /\ args.parts[1].text = <<>>
    /\ args.parts[2].text # <<>>
    /\ Len(lines) >= 1


\* C22: Zero-width fragments never flush: in the drawTextArea line breaker a
\* fragment of zero width that carries no forced-break flag never causes the
\* current line to be flushed, whatever the accumulated width of the line; it
\* is appended to the current line, so it never starts a line after the first.
C22_ZeroWidthNoFlush ==
    Done("drawTextArea") =>
        \A l \in 2..Len(lines) :
            ~(partWidth(lines[l][1]) = 0 /\ ~lines[l][1].newLine)


\* The start cursor of the first drawn line and the cursor after the last
\* drawn line, in twentieths, read from the commands on the page.
FirstCursor == AreaRow(1)[1].yn + 20 * MaxSize(AreaRow(1))

LastCursor ==
    FirstCursor - 2 * SumSeq([m \in 1..Len(rendered) |->
                                 StatedHeight(rendered[m], args.lineHeight)])

\* C23: Vertical alignment is computed against the rendered lines only: in
\* drawTextArea with verticalAlign 'bottom' the cursor after the last rendered
\* line equals the box bottom (boxTop - height), with 'middle' the space above
\* the first rendered line equals the space below the last rendered line, and
\* with 'top' the first line starts at boxTop; also when clipOverflow has
\* removed lines.
C23_VerticalAlign ==
    (Done("drawTextArea") /\ DrawTexts(page) # <<>>) =>
        LET boxTop == 20 * (PageHeight - args.y)
            boxBottom == boxTop - 20 * args.height
        IN  /\ args.verticalAlign = "top" => FirstCursor = boxTop
            /\ args.verticalAlign = "bottom" => LastCursor = boxBottom
            /\ args.verticalAlign = "middle" =>
                   boxTop - FirstCursor = LastCursor - boxBottom

C23_Witness ==
    /\ Done("drawTextArea")
    /\ args.verticalAlign = "bottom"
    /\ args.clipOverflow
    /\ Len(rendered) >= 1
    /\ Len(rendered) < Len(lines)
    /\ DrawTexts(page) # <<>>


StyleOf(part) == <<part.font, part.fontSize, part.color, part.opacity>>

\* The input parts a run stands for: from its first part to the part before
\* the first part of the next run.
RunParts(g) ==
    LET last == IF g = Len(ret) THEN Len(args.parts) ELSE ret[g + 1].src - 1
    IN  SubSeq(args.parts, ret[g].src, last)

\* C24: Style-run merge: groupPartsByStyle returns runs in input order whose
\* concatenated text equals the concatenated text of the input parts (each run
\* is the concatenation of consecutive parts of its style), no two adjacent
\* runs have identical (font, fontSize, colour, opacity), and the input parts
\* are not modified.
C24_StyleRuns ==
    Done("groupPartsByStyle") =>
        /\ TextOf(ret) = TextOf(args.parts)
        /\ (args.parts # <<>>) => (ret # <<>> /\ ret[1].src = 1)
        /\ \A g \in 1..(Len(ret) - 1) :
               /\ ret[g].src < ret[g + 1].src
               /\ StyleOf(ret[g]) # StyleOf(ret[g + 1])
        /\ \A g \in DOMAIN ret :
               /\ ret[g].text = TextOf(RunParts(g))
               /\ \A k \in DOMAIN RunParts(g) : StyleOf(RunParts(g)[k]) = StyleOf(ret[g])
        /\ args.after = args.parts

C24_Witness ==
    /\ Done("groupPartsByStyle")
    /\ Len(args.parts) = 2
    /\ Len(ret) = 1
    /\ args.parts[1].text # <<>> /\ args.parts[2].text # <<>>
    /\ args.parts[1].text # args.parts[2].text


TokenCount(text) == Len(MatchTokens(text))

\* C25: splitPartToFit(part, maxWidth) returns pieces whose texts concatenate
\* in order to part.text; pieces are cut between tokens of the white space
\* split, never inside one; every piece either measures at most maxWidth or
\* is a single token; and every piece but the last is greedy-maximal:
\* appending the next token to it would exceed maxWidth.
C25_SplitToFit ==
    Done("splitPartToFit") =>
        /\ TextOf(ret) = args.part.text
        /\ \A k \in DOMAIN ret :
               /\ ret[k].text # <<>>
               /\ \/ partWidth(ret[k]) <= args.maxWidth
                  \/ TokenCount(ret[k].text) = 1
        /\ \A k \in 1..(Len(ret) - 1) :
               LET a == ret[k].text
                   b == ret[k + 1].text
                   next == MatchTokens(b)[1]
               IN  /\ IsSpace(a[Len(a)]) # IsSpace(b[1])
                   /\ partWidth([args.part EXCEPT !.text = a \o next]) > args.maxWidth

C25_Witness ==
    /\ Done("splitPartToFit")
    /\ Len(ret) >= 2
    /\ TokenCount(ret[1].text) >= 2
    /\ partWidth(ret[1]) = args.maxWidth


\* C26: Wrapped line width bound: with autoWrap enabled, every line built by
\* drawTextArea that contains two or more tokens has total width <= box
\* width; a line exceeds the box width only if it consists of a single token
\* that is itself wider than the box, so overflowX is reported only when a
\* rendered line is such a token.
C26_WrappedWidth ==
    (Done("drawTextArea") /\ args.autoWrap) =>
        /\ \A l \in DOMAIN lines :
               /\ Len(lines[l]) >= 2 => LineWidth(lines[l]) <= args.width
               /\ LineWidth(lines[l]) > args.width =>
                      (Len(lines[l]) = 1 /\ partWidth(lines[l][1]) > args.width)
        /\ \A k \in DOMAIN reports :
               reports[k].overflowX =>
                   \E l \in DOMAIN rendered :
                       /\ Len(rendered[l]) = 1
                       /\ partWidth(rendered[l][1]) > args.width

C26_Witness ==
    /\ Done("drawTextArea")
    /\ args.autoWrap
    /\ args.width > 0
    /\ Len(lines) >= 2
    /\ \E l \in DOMAIN lines : Len(lines[l]) >= 2 /\ LineWidth(lines[l]) > 0
    /\ \A l \in DOMAIN lines : \A j \in DOMAIN lines[l] : partWidth(lines[l][j]) > 0


IsReportEvent(e) == e.cmd = "onOverflow"

IsPageEvent(e) == e.cmd # "onOverflow"

\* C27: Report before draw: in drawTextArea and drawTextLine onOverflow is
\* invoked at most once per call and before any command (graphics-state push,
\* drawText, debug rectangle) is emitted to the page, also when
\* hideOnOverflow then suppresses the text.
C27_ReportBeforeDraw ==
    (pc = "done" /\ op \in {"drawTextArea", "drawTextLine", "drawTextLineDTL"}) =>
        /\ Len(reports) <= 1
        /\ Len(SelectSeq(ret, IsReportEvent)) = Len(reports)
        /\ SelectSeq(ret, IsPageEvent) = page
        /\ \A i, j \in DOMAIN ret :
               (IsReportEvent(ret[j]) /\ IsPageEvent(ret[i])) => j < i

C27_Witness ==
    /\ Done("drawTextArea")
    /\ args.hideOnOverflow
    /\ args.debug
    /\ Len(reports) = 1
    /\ DrawTexts(page) = <<>>
    /\ Len(page) = 3
    /\ IsReportEvent(ret[1])


\* The indices of the popGraphicsState commands of the page, in order; every
\* call of a chain ends with one.
PopIndices == SelectSeq([k \in 1..Len(page) |-> k], LAMBDA k : page[k] = PopCmd)

\* The commands the i-th call of the chain sent to the page.
CallCmds(i) ==
    SubSeq(page, IF i = 1 THEN 1 ELSE PopIndices[i - 1] + 1, PopIndices[i])

IsPathConstruction(c) ==
    c.cmd \in {"moveTo", "lineTo", "appendBezierCurve", "closePath"}

\* The commands of a clip call between its push and its clipEvenOdd.
ClippedPath(cmds) ==
    LET k == CHOOSE j \in DOMAIN cmds : cmds[j].cmd = "clipEvenOdd"
    IN  SubSeq(cmds, 2, k - 1)

\* C28: PathBuilderInstance.pushOperators leaves the built path unchanged:
\* after any sequence of pushOperators() and clip() calls on one instance,
\* each pushOperators() emits the same operator sequence as the first one
\* did, and each clip() emits only the path-construction operators (no
\* fill/stroke paint operator) before clipEvenOdd.
C28_PathUnchanged ==
    Done("path") =>
        /\ Len(PopIndices) = Len(args.chain)
        /\ \A i, j \in DOMAIN args.chain :
               (args.chain[i] = "pushOperators" /\ args.chain[j] = "pushOperators")
                   => CallCmds(i) = CallCmds(j)
        /\ \A i \in DOMAIN args.chain :
               args.chain[i] = "clip" =>
                   \A k \in DOMAIN ClippedPath(CallCmds(i)) :
                       IsPathConstruction(ClippedPath(CallCmds(i))[k])


\* The doubled coordinates of the points of the path a clip call sent.
PathPoints(cmds) ==
    {<<cmds[k].x2, cmds[k].y2>> :
        k \in {j \in DOMAIN cmds : cmds[j].cmd \in {"moveTo", "lineTo", "appendBezierCurve"}}}

CallbackOf(cmds) == cmds[CHOOSE j \in DOMAIN cmds : cmds[j].cmd = "callback"]

\* C29: Clip callback coordinates: in PathBuilderInstance.clip the callback's
\* left is the left x and its top is the bottom-up y of the lower edge of the
\* bounding box of the clipped shape as actually drawn, for rectPath and
\* ellipsePath and for both fromTop = true and fromTop = false.
C29_ClipCoords ==
    (Done("path") /\ args.chain[1] = "clip") =>
        LET cmds == CallCmds(1)
            pts == PathPoints(ClippedPath(cmds))
        IN  /\ 2 * CallbackOf(cmds).left = MinOf({pt[1] : pt \in pts})
            /\ 2 * CallbackOf(cmds).top = MinOf({pt[2] : pt \in pts})


\* The dark modules of the matrix in the order they are drawn.
DarkModules ==
    SelectSeq(ModuleOrder(args.moduleCount), LAMBDA rc : args.modules[rc])

\* The doubled bounding box of the k-th dark module as drawn; the first call
\* on the page draws the background.
CellBox(k) ==
    LET pts == PathPoints(CallCmds(k + 1))
    IN  [left |-> MinOf({pt[1] : pt \in pts}), right |-> MaxOf({pt[1] : pt \in pts}),
         bottom |-> MinOf({pt[2] : pt \in pts}), top |-> MaxOf({pt[2] : pt \in pts})]

\* The doubled bottom-up bounding box of the area inset by margin.
InsetBox ==
    LET lower == IF args.fromTop THEN PageHeight - args.y - args.height ELSE args.y
    IN  [left |-> 2 * (args.x + args.margin),
         right |-> 2 * (args.x + args.width - args.margin),
         bottom |-> 2 * (lower + args.margin),
         top |-> 2 * (lower + args.height - args.margin)]

\* C30: QR module orientation: drawQRCode draws the dark modules of matrix
\* row r above those of row r+1 on the page (row 0 is the topmost row of
\* cells, column 0 the leftmost) and every cell lies inside the area inset by
\* margin, for both fromTop = true and fromTop = false.
C30_QROrientation ==
    Done("drawQRCode") =>
        /\ Len(PopIndices) = Len(DarkModules) + 1
        /\ \A k \in DOMAIN DarkModules :
               /\ InsetBox.left <= CellBox(k).left
               /\ CellBox(k).right <= InsetBox.right
               /\ InsetBox.bottom <= CellBox(k).bottom
               /\ CellBox(k).top <= InsetBox.top
               /\ DarkModules[k][1] = 0 => CellBox(k).top = InsetBox.top
               /\ DarkModules[k][2] = 0 => CellBox(k).left = InsetBox.left
        /\ \A k, l \in DOMAIN DarkModules :
               /\ DarkModules[k][1] < DarkModules[l][1]
                      => CellBox(k).bottom >= CellBox(l).top
               /\ DarkModules[k][2] < DarkModules[l][2]
                      => CellBox(k).right <= CellBox(l).left

====
